---- MODULE Spec2Model ----
(***************************************************************************)
(* Phase-based kinematics engine of the roulette wheel (roulette.py) and   *)
(* the part of the visualizer that drives it (wheel_visualizer.py).        *)
(*                                                                         *)
(* Numbers.  The program computes with Python numbers.  They are modelled  *)
(* as exact rationals <<numerator, denominator>> in lowest terms with a    *)
(* positive denominator, so that equal values are equal tuples.  Where a   *)
(* claim is about the value a float computation returns (get_spins_amount, *)
(* get_angle), the computation is carried out in binary64 with its         *)
(* rounding; see the section on binary64.                                  *)
(*                                                                         *)
(* Objects.  Stage objects live in `heap` and are named by references;     *)
(* list objects live in `lists`.  A controller holds a reference to its    *)
(* stage list, and stages_by_type holds references to stages, as in the    *)
(* program.                                                                *)
(***************************************************************************)
EXTENDS Integers, Sequences, FiniteSets, TLC

VARIABLES
    heap,   \* Stage objects: reference -> fields
    lists,  \* list objects: reference -> sequence of stage references
    ctl,    \* StagesController objects: sequence of field records
    err,    \* the exception the last operation ended in, or "none"
    ret,    \* the value the last operation returned
    op,     \* the last operation and its arguments
    hist,   \* history of the polling run since the cursor was last at 0
    viz     \* the WheelVisualizer's fields

vars == <<heap, lists, ctl, err, ret, op, hist, viz>>

----------------------------------------------------------------------------
(* Rational arithmetic *)

Abs(x) == IF x < 0 THEN -x ELSE x

RECURSIVE Gcd(_, _)
Gcd(a, b) == IF b = 0 THEN a ELSE Gcd(b, a % b)

Rat(n, d) ==
    LET g == Gcd(Abs(n), Abs(d))
        s == IF d < 0 THEN -1 ELSE 1
    IN  <<(s * n) \div g, (s * d) \div g>>

I(n) == <<n, 1>>
Zero == <<0, 1>>
MinusOne == <<-1, 1>>

Add(x, y) == Rat(x[1] * y[2] + y[1] * x[2], x[2] * y[2])
Sub(x, y) == Rat(x[1] * y[2] - y[1] * x[2], x[2] * y[2])
Mul(x, y) == Rat(x[1] * y[1], x[2] * y[2])
Div(x, y) == Rat(x[1] * y[2], x[2] * y[1])
Lt(x, y) == x[1] * y[2] < y[1] * x[2]
Le(x, y) == x[1] * y[2] <= y[1] * x[2]
IsZero(x) == x[1] = 0

\* int(x): truncation toward zero
Trunc(x) == IF x[1] >= 0 THEN x[1] \div x[2] ELSE -((-x[1]) \div x[2])

\* x % m for m > 0, with Python's sign convention (result in [0, m))
PyMod(x, m) ==
    LET q == Div(x, m)
        fl == q[1] \div q[2]
    IN  Sub(x, Mul(I(fl), m))

----------------------------------------------------------------------------
(* class Stages *)

ACCELERATION_STAGE == "ACCELERATION_STAGE"
LINEAR_STAGE == "LINEAR_STAGE"
DECCELERATION_STAGE == "DECCELERATION_STAGE"
STOP == "STOP"

RealKinds == {ACCELERATION_STAGE, LINEAR_STAGE, DECCELERATION_STAGE}

\* Stages.<member>.value
StageValue(k) ==
    CASE k = ACCELERATION_STAGE -> 1
      [] k = LINEAR_STAGE -> 0
      [] k = DECCELERATION_STAGE -> -1
      [] k = STOP -> 2

----------------------------------------------------------------------------
(* Kinematics functions *)

get_acceleration(initial_speed, target_time, final_speed) ==
    IF Lt(Zero, target_time)
    THEN Div(Sub(final_speed, initial_speed), target_time)
    ELSE Zero

get_speed(initial_speed, acceleration, cur_time) ==
    Add(initial_speed, Mul(acceleration, cur_time))

get_angle(initial_speed, acceleration, cur_time, initial_angle) ==
    PyMod(Add(Add(initial_angle, Mul(initial_speed, cur_time)),
              Div(Mul(acceleration, Mul(cur_time, cur_time)), I(2))),
          I(360))

----------------------------------------------------------------------------
(* class Stage *)

STOP_ID == -1
\* The reference of the module-level STOP_STAGE object.
STOP_STAGE == 0
StopFields == [stage_type |-> STOP]

\* Stage.__init__: [err, stage]; on an exception no object is returned.
Stage(stage_type, duration, start_time, start_speed, end_speed, total_spin_time) ==
    IF stage_type = STOP
    THEN [err |-> "none", stage |-> StopFields]
    ELSE IF Lt(duration, Zero)
    THEN [err |-> "ValueError", stage |-> StopFields]
    ELSE IF total_spin_time # MinusOne /\ IsZero(total_spin_time)
    THEN [err |-> "ZeroDivisionError", stage |-> StopFields]
    ELSE [err |-> "none",
          stage |-> [stage_type |-> stage_type,
                     time_coefficient |->
                         IF total_spin_time # MinusOne
                         THEN Div(duration, total_spin_time)
                         ELSE MinusOne,
                     duration |-> duration,
                     start_time |-> start_time,
                     start_speed |-> start_speed,
                     end_speed |-> end_speed,
                     acceleration |->
                         get_acceleration(start_speed, duration, end_speed)]]

get_end_time(s) == Add(s.start_time, s.duration)

\* is_active with the interval closed at its end
is_active_closed(s, cur_time) ==
    Le(s.start_time, cur_time) /\ Le(cur_time, get_end_time(s))

is_active(s, cur_time) ==
    Le(s.start_time, cur_time) /\ Lt(cur_time, get_end_time(s))

Stage_update_total_time(s, start_time, total_time, time_coefficient) ==
    LET d == Mul(total_time, time_coefficient)
    IN  [s EXCEPT !.time_coefficient = time_coefficient,
                  !.start_time = start_time,
                  !.duration = d,
                  !.acceleration = get_acceleration(s.start_speed, d, s.end_speed)]

\* Stage.update_acceleration: an argument equal to -1 leaves the field alone.
update_acceleration(s, start_speed, duration, end_speed) ==
    LET ss == IF start_speed # MinusOne THEN start_speed ELSE s.start_speed
        d == IF duration # MinusOne THEN duration ELSE s.duration
        es == IF end_speed # MinusOne THEN end_speed ELSE s.end_speed
    IN  [s EXCEPT !.start_speed = ss,
                  !.duration = d,
                  !.end_speed = es,
                  !.acceleration = get_acceleration(ss, d, es)]

get_total_path(s) ==
    Add(Mul(s.start_speed, s.duration),
        Div(Mul(s.acceleration, Mul(s.duration, s.duration)), I(2)))

----------------------------------------------------------------------------
(* Objects *)

\* A world is the object graph: [heap, lists, ctl].  An operation maps a
\* world to a result [w, err, ret]; ret is <<>> for None or <<ref>>.
Result(w, e, r) == [w |-> w, err |-> e, ret |-> r]

\* The smallest reference not in use.
NewRef(h) ==
    CHOOSE r \in 1..(Cardinality(DOMAIN h) + 1) :
        /\ r \notin DOMAIN h
        /\ \A q \in 1..(r - 1) : q \in DOMAIN h

Range(f) == {f[x] : x \in DOMAIN f}

\* Objects nothing refers to any more are reclaimed.
Live(w, r, v) ==
    {STOP_STAGE}
        \cup UNION {Range(w.lists[l]) : l \in DOMAIN w.lists}
        \cup UNION {Range(w.ctl[c].stages_by_type) : c \in DOMAIN w.ctl}
        \cup Range(r)
        \cup (IF v.built THEN {v.current_stage} ELSE {})

Collect(w, r, v) ==
    [w EXCEPT !.heap = [x \in (DOMAIN w.heap) \cap Live(w, r, v) |-> w.heap[x]]]

----------------------------------------------------------------------------
(* class StagesController *)

\* The list object that is the default value of __init__'s stage_order
\* parameter: created once, when the function is defined.
DefaultList == 1

\* StagesController.__init__(total_spin_time, stage_order): the field record.
StagesController(w, total_spin_time, stage_order) ==
    LET order == w.lists[stage_order]
        kinds == {w.heap[order[i]].stage_type : i \in 1..Len(order)}
    IN  [stage_order |-> stage_order,
         active_stage_id |-> 0,
         total_spin_time |-> total_spin_time,
         total_stages_duration |-> Zero,
         stages_by_type |->
             [k \in kinds |->
                 LET last == CHOOSE i \in 1..Len(order) :
                                 /\ w.heap[order[i]].stage_type = k
                                 /\ \A j \in (i + 1)..Len(order) :
                                        w.heap[order[j]].stage_type # k
                 IN  order[last]]]

\* self.stage_order of controller c, as a sequence of references
Order(w, c) == w.lists[w.ctl[c].stage_order]

clear_stages(w, c) ==
    Result([w EXCEPT !.lists[w.ctl[c].stage_order] = <<>>,
                     !.ctl[c].active_stage_id = 0,
                     !.ctl[c].total_stages_duration = Zero],
           "none", <<>>)

\* append_stage that leaves the stage's start_time as constructed
append_stage_unchained(w, c, ref) ==
    Result([w EXCEPT
               !.lists[w.ctl[c].stage_order] = Append(Order(w, c), ref),
               !.ctl[c].total_stages_duration = Add(@, w.heap[ref].duration),
               !.ctl[c].stages_by_type = (w.heap[ref].stage_type :> ref) @@ @],
           "none", <<>>)

\* append_stage(stage), the Stage object being heap[ref]
append_stage(w, c, ref) ==
    LET order == Order(w, c)
        st == IF Len(order) > 0
              THEN get_end_time(w.heap[order[Len(order)]])
              ELSE Zero
        h1 == [w.heap EXCEPT ![ref].start_time = st]
    IN  Result([w EXCEPT
                   !.heap = h1,
                   !.lists[w.ctl[c].stage_order] = Append(order, ref),
                   !.ctl[c].total_stages_duration = Add(@, h1[ref].duration),
                   !.ctl[c].stages_by_type =
                       (h1[ref].stage_type :> ref) @@ @],
               "none", <<>>)

\* The caller's  append_stage(Stage(...)):  construct, then append.
append_new(w, c, made) ==
    IF made.err # "none"
    THEN Result(w, made.err, <<>>)
    ELSE LET ref == NewRef(w.heap)
         IN  append_stage([w EXCEPT !.heap = (ref :> made.stage) @@ @], c, ref)

\* emplace_stage that appends a zero-length stage before the negative
\* duration is rejected
emplace_stage_append_first(w, c, stage_type, duration, start_speed, end_speed) ==
    IF Lt(duration, Zero)
    THEN Result(append_new(w, c, Stage(stage_type, Zero, Zero, start_speed,
                                       end_speed, w.ctl[c].total_spin_time)).w,
                "ValueError", <<>>)
    ELSE append_new(w, c, Stage(stage_type, duration, Zero, start_speed,
                                end_speed, w.ctl[c].total_spin_time))

emplace_stage(w, c, stage_type, duration, start_speed, end_speed) ==
    append_new(w, c, Stage(stage_type, duration, Zero, start_speed, end_speed,
                           w.ctl[c].total_spin_time))

\* The loop of get_current_stage: the index found (0-based), or STOP_ID.
RECURSIVE scan(_, _, _, _)
scan(h, order, stage_id, cur_time) ==
    IF stage_id >= Len(order)
    THEN STOP_ID
    ELSE IF stage_id = STOP_ID
    THEN scan(h, order, stage_id + 1, cur_time)
    ELSE IF is_active(h[order[stage_id + 1]], cur_time)
    THEN stage_id
    ELSE scan(h, order, stage_id + 1, cur_time)

\* get_current_stage whose scan starts one past the cursor
get_current_stage_past_cursor(w, c, cur_time) ==
    LET order == Order(w, c)
        found == scan(w.heap, order, w.ctl[c].active_stage_id + 1, cur_time)
    IN  Result([w EXCEPT !.ctl[c].active_stage_id = found],
               "none",
               IF found = STOP_ID THEN <<STOP_STAGE>> ELSE <<order[found + 1]>>)

get_current_stage(w, c, cur_time) ==
    LET order == Order(w, c)
        found == scan(w.heap, order, w.ctl[c].active_stage_id, cur_time)
    IN  Result([w EXCEPT !.ctl[c].active_stage_id = found],
               "none",
               IF found = STOP_ID THEN <<STOP_STAGE>> ELSE <<order[found + 1]>>)

\* The loop of update_total_time over stage_order[i..]: [heap, tsd, err].
\* The division stage.duration / self.total_spin_time is evaluated before
\* the stage is touched; when it raises, the stages before it keep their
\* new values and the rest keep their old ones.
RECURSIVE update_loop(_, _, _, _, _, _, _)
update_loop(h, order, i, start_time, tsd, new_total_time, total_spin_time) ==
    IF i > Len(order)
    THEN [heap |-> h, tsd |-> tsd, err |-> "none"]
    ELSE LET s == h[order[i]]
         IN  IF s.time_coefficient = MinusOne /\ IsZero(total_spin_time)
             THEN [heap |-> h, tsd |-> tsd, err |-> "ZeroDivisionError"]
             ELSE LET coef == IF s.time_coefficient # MinusOne
                              THEN s.time_coefficient
                              ELSE Div(s.duration, total_spin_time)
                      s2 == Stage_update_total_time(s, start_time,
                                                    new_total_time, coef)
                  IN  update_loop([h EXCEPT ![order[i]] = s2], order, i + 1,
                                  get_end_time(s2), Add(tsd, s2.duration),
                                  new_total_time, total_spin_time)

\* fix_mismatch without the stretch of the last stage: the totals are set,
\* the last stage's duration is left as rescaled.
fix_mismatch_nostretch(w, c, new_total_time) ==
    Result([w EXCEPT !.ctl[c].total_stages_duration = new_total_time,
                     !.ctl[c].total_spin_time = new_total_time],
           "none", <<>>)

\* What update_total_time does once the loop has ended normally.
fix_mismatch(w, c, new_total_time) ==
    LET order == Order(w, c)
    IN  IF w.ctl[c].total_stages_duration # new_total_time
        THEN IF Len(order) = 0
             THEN Result(w, "IndexError", <<>>)
             ELSE Result([w EXCEPT
                             !.heap[order[Len(order)]].duration =
                                 Add(@, Sub(new_total_time,
                                            w.ctl[c].total_stages_duration)),
                             !.ctl[c].total_stages_duration = new_total_time,
                             !.ctl[c].total_spin_time = new_total_time],
                         "none", <<>>)
        ELSE Result([w EXCEPT !.ctl[c].total_spin_time = new_total_time],
                    "none", <<>>)

update_total_time(w, c, new_total_time) ==
    LET l == update_loop(w.heap, Order(w, c), 1, Zero, Zero, new_total_time,
                         w.ctl[c].total_spin_time)
        w1 == [w EXCEPT !.heap = l.heap,
                        !.ctl[c].total_stages_duration = l.tsd]
    IN  IF l.err # "none"
        THEN Result(w1, l.err, <<>>)
        ELSE fix_mismatch(w1, c, new_total_time)

----------------------------------------------------------------------------
(* binary64.  Where a claim is about the very value a float computation
   returns, the computation is carried out as the program's floats carry it
   out: every operation gives the exact result rounded to the nearest value
   with a 53-bit significand, ties to even.  A float is [s, m, e], the value
   s * m * 2^e, with s the sign (1 or -1) and m a natural number of any
   size.  Exponents are unbounded: the values here stay far from overflow
   and from subnormal numbers.  Multipliers, divisors and moduli are whole
   numbers below 2^15, as they are in the calls modelled. *)

\* Natural numbers of any size: sequences of digits in base 2^15, least
\* significant first, the last digit not 0; <<>> is 0.
Base == 32768
DigitBits == 15

RECURSIVE Digits(_)
Digits(n) == IF n = 0 THEN <<>> ELSE <<n % Base>> \o Digits(n \div Base)

\* The value of a number below 2^30
DigitsValue(a) ==
    IF a = <<>> THEN 0 ELSE IF Len(a) = 1 THEN a[1] ELSE a[1] + Base * a[2]

RECURSIVE Strip(_)
Strip(a) ==
    IF a = <<>> \/ a[Len(a)] # 0 THEN a ELSE Strip(SubSeq(a, 1, Len(a) - 1))

RECURSIVE BAddC(_, _, _)
BAddC(a, b, c) ==
    IF a = <<>> /\ b = <<>>
    THEN IF c = 0 THEN <<>> ELSE <<c>>
    ELSE LET x == IF a = <<>> THEN 0 ELSE Head(a)
             y == IF b = <<>> THEN 0 ELSE Head(b)
             t == x + y + c
         IN  <<t % Base>> \o BAddC(IF a = <<>> THEN a ELSE Tail(a),
                                   IF b = <<>> THEN b ELSE Tail(b),
                                   t \div Base)

BAdd(a, b) == BAddC(a, b, 0)

RECURSIVE BSubC(_, _, _)
BSubC(a, b, c) ==
    IF a = <<>>
    THEN <<>>
    ELSE LET y == IF b = <<>> THEN 0 ELSE Head(b)
             t == Head(a) - y - c
         IN  <<t % Base>> \o BSubC(Tail(a),
                                   IF b = <<>> THEN b ELSE Tail(b),
                                   IF t < 0 THEN 1 ELSE 0)

\* a - b, for a >= b
BSub(a, b) == Strip(BSubC(a, b, 0))

RECURSIVE BLess(_, _)
BLess(a, b) ==
    IF Len(a) # Len(b)
    THEN Len(a) < Len(b)
    ELSE IF a = <<>>
    THEN FALSE
    ELSE IF a[Len(a)] # b[Len(b)]
    THEN a[Len(a)] < b[Len(b)]
    ELSE BLess(SubSeq(a, 1, Len(a) - 1), SubSeq(b, 1, Len(b) - 1))

\* a * d + c, for a digit d
RECURSIVE MulDigit(_, _, _)
MulDigit(a, d, c) ==
    IF a = <<>>
    THEN IF c = 0 THEN <<>> ELSE <<c>>
    ELSE LET t == Head(a) * d + c
         IN  <<t % Base>> \o MulDigit(Tail(a), d, t \div Base)

\* a divided by d, for 0 < d < Base, from digit i of a upward: [q, r]
RECURSIVE DivDigit(_, _, _)
DivDigit(a, i, d) ==
    IF i > Len(a)
    THEN [q |-> <<>>, r |-> 0]
    ELSE LET p == DivDigit(a, i + 1, d)
             t == p.r * Base + a[i]
         IN  [q |-> <<t \div d>> \o p.q, r |-> t % d]

\* a * 2^k, a divided by 2^k without its remainder, the remainder
Shl(a, k) ==
    IF a = <<>>
    THEN a
    ELSE [i \in 1..(k \div DigitBits) |-> 0]
             \o Strip(MulDigit(a, 2^(k % DigitBits), 0))

Shr(a, k) ==
    IF k \div DigitBits >= Len(a)
    THEN <<>>
    ELSE Strip(DivDigit(SubSeq(a, k \div DigitBits + 1, Len(a)), 1,
                        2^(k % DigitBits)).q)

Low(a, k) == BSub(a, Shl(Shr(a, k), k))

\* The number of bits of a, and bit i of a (bit 1 the least significant)
BitLen(a) ==
    IF a = <<>>
    THEN 0
    ELSE DigitBits * (Len(a) - 1)
             + (CHOOSE n \in 1..DigitBits :
                    2^(n - 1) <= a[Len(a)] /\ a[Len(a)] < 2^n)

Bit(a, i) == (a[(i - 1) \div DigitBits + 1] \div 2^((i - 1) % DigitBits)) % 2

FZero == [s |-> 1, m |-> <<>>, e |-> 0]

\* The magnitude of a float that is a whole number below 2^15
Whole(n) == DigitsValue(IF n.e >= 0 THEN Shl(n.m, n.e) ELSE Shr(n.m, -n.e))

\* An int as a float (exact for the integers used here)
FInt(n) == [s |-> IF n < 0 THEN -1 ELSE 1, m |-> Digits(Abs(n)), e |-> 0]

\* The float nearest to s * (m + f) * 2^e, where 0 <= f < 1 and
\* sticky = (f # 0); m has at least 55 bits when sticky.
Round53(s, m, e, sticky) ==
    LET d == BitLen(m) - 53
    IN  IF d <= 0
        THEN [s |-> s, m |-> m, e |-> e]
        ELSE LET keep == Shr(m, d)
                 rest == sticky \/ Low(m, d - 1) # <<>>
                 up == Bit(m, d) = 1 /\ (rest \/ keep[1] % 2 = 1)
             IN  [s |-> s,
                  m |-> IF up THEN BAdd(keep, <<1>>) ELSE keep,
                  e |-> e + d]

FNeg(x) == [x EXCEPT !.s = -x.s]

\* x + y
FAdd(x, y) ==
    LET e == IF x.e < y.e THEN x.e ELSE y.e
        a == Shl(x.m, x.e - e)
        b == Shl(y.m, y.e - e)
    IN  IF x.m = <<>>
        THEN y
        ELSE IF y.m = <<>>
        THEN x
        ELSE IF x.s = y.s
        THEN Round53(x.s, BAdd(a, b), e, FALSE)
        ELSE IF BLess(a, b)
        THEN Round53(y.s, BSub(b, a), e, FALSE)
        ELSE Round53(x.s, BSub(a, b), e, FALSE)

FSub(x, y) == FAdd(x, FNeg(y))

\* x * n, for a float n that is a whole number below 2^15 in magnitude
FMul(x, n) ==
    IF x.m = <<>> \/ n.m = <<>>
    THEN FZero
    ELSE Round53(x.s * n.s, Strip(MulDigit(x.m, Whole(n), 0)),
                 x.e, FALSE)

\* x / n, for a float n # 0 that is a whole number below 2^15 in magnitude
FDiv(x, n) ==
    IF x.m = <<>>
    THEN FZero
    ELSE LET k == IF 70 - BitLen(x.m) > 0 THEN 70 - BitLen(x.m) ELSE 0
             d == DivDigit(Shl(x.m, k), 1, Whole(n))
         IN  Round53(x.s * n.s, Strip(d.q), x.e - k, d.r # 0)

\* x < y
FLess(x, y) ==
    LET d == FSub(x, y)
    IN  d.m # <<>> /\ d.s = -1

\* x % n as Python computes it for floats, for a whole number 0 < n < 2^15:
\* fmod(x, n), which is exact and has the sign of x, and n added to it (a
\* rounded addition) when it is not zero and x is negative.
FMod(x, n) ==
    LET d == Whole(n)
        whole == IF x.e >= 0 THEN Shl(x.m, x.e) ELSE Shr(x.m, -x.e)
        part == IF x.e >= 0 THEN <<>> ELSE Low(x.m, -x.e)
        r == Digits(DivDigit(whole, 1, d).r)
        mod == IF x.e >= 0
               THEN [s |-> x.s, m |-> r, e |-> 0]
               ELSE [s |-> x.s, m |-> BAdd(Shl(r, -x.e), part), e |-> x.e]
    IN  IF x.m = <<>> \/ mod.m = <<>>
        THEN FZero
        ELSE IF mod.s # n.s
        THEN FAdd(mod, n)
        ELSE mod

\* int(x): truncation toward zero, for |x| < 2^30
FTrunc(x) ==
    IF x.e >= 0
    THEN x.s * DigitsValue(Shl(x.m, x.e))
    ELSE x.s * DigitsValue(Shr(x.m, -x.e))

\* The float a decimal literal denotes: the float nearest to n / d
Dec(n, d) == FDiv(FInt(n), FInt(d))

\* get_angle on floats, for a time that is a whole number of seconds (so that
\* pow(cur_time, 2) is exact): initial_speed, acceleration and initial_angle
\* are floats, cur_time an int.
get_angle_binary64(initial_speed, acceleration, cur_time, initial_angle) ==
    FMod(FAdd(FAdd(initial_angle, FMul(initial_speed, FInt(cur_time))),
              FDiv(FMul(acceleration, FInt(cur_time * cur_time)), FInt(2))),
         FInt(360))

----------------------------------------------------------------------------
(* Spin planner *)

SPIN_COEF_MIN == 1
SPIN_COEF_MAX == 10
\* The floats 0.5 and 1.5
SPIN_COEF_MIN_NORM == Dec(5, 10)
SPIN_COEF_MAX_NORM == Dec(15, 10)

\* utils.interpolate, on floats
interpolate(x, in_min, in_max, out_min, out_max) ==
    FAdd(out_min, FDiv(FMul(FSub(x, in_min), FSub(out_max, out_min)),
                       FSub(in_max, in_min)))

\* get_spins_amount(spins_amount_coeff, spin_time): an int; the coefficient
\* is an int, spin_time a float
get_spins_amount(spins_amount_coeff, spin_time) ==
    FTrunc(FMul(interpolate(FInt(spins_amount_coeff), FInt(SPIN_COEF_MIN),
                            FInt(SPIN_COEF_MAX),
                            SPIN_COEF_MIN_NORM, SPIN_COEF_MAX_NORM),
                spin_time))

\* An argument that is a list of stages (their field records), and one that
\* is a number.
ListArg(items) == [type |-> "list", items |-> items]
NumberArg(x) == [type |-> "number", items |-> <<>>, value |-> x]

Pow2(x) == Mul(x, x)

\* get_initial_speed with the term a1*t1*t3 left out
get_initial_speed_dropped_term(target_angle, spins_amount, stages_list, initial_angle) ==
    LET st == stages_list.items
        total_path == Sub(Add(target_angle, I(360 * spins_amount)), initial_angle)
        t1 == st[1].duration
        t2 == st[2].duration
        t3 == st[3].duration
        a1 == st[1].acceleration
        a2 == st[2].acceleration
        a3 == st[3].acceleration
        ramps == Add(Add(Add(Add(Div(Mul(a1, Pow2(t1)), I(2)),
                                 Div(Mul(a2, Pow2(t2)), I(2))),
                             Div(Mul(a3, Pow2(t3)), I(2))),
                         Mul(Mul(a1, t1), t2)),
                     Mul(Mul(a2, t2), t3))
        time == Add(Add(t1, t2), t3)
    IN  IF stages_list.type # "list"
        THEN [err |-> "TypeError", value |-> Zero]
        ELSE IF Len(st) # 3
        THEN [err |-> "ValueError", value |-> Zero]
        ELSE IF IsZero(time)
        THEN [err |-> "ZeroDivisionError", value |-> Zero]
        ELSE [err |-> "none", value |-> Div(Sub(total_path, ramps), time)]

\* get_initial_speed that asks for at least three stages and plans over the
\* first three
get_initial_speed_at_least_three(target_angle, spins_amount, stages_list, initial_angle) ==
    LET st == stages_list.items
        total_path == Sub(Add(target_angle, I(360 * spins_amount)), initial_angle)
        t1 == st[1].duration
        t2 == st[2].duration
        t3 == st[3].duration
        a1 == st[1].acceleration
        a2 == st[2].acceleration
        a3 == st[3].acceleration
        ramps == Add(Add(Add(Add(Add(Div(Mul(a1, Pow2(t1)), I(2)),
                                     Div(Mul(a2, Pow2(t2)), I(2))),
                                 Div(Mul(a3, Pow2(t3)), I(2))),
                             Mul(Mul(a1, t1), t2)),
                         Mul(Mul(a1, t1), t3)),
                     Mul(Mul(a2, t2), t3))
        time == Add(Add(t1, t2), t3)
    IN  IF stages_list.type # "list"
        THEN [err |-> "TypeError", value |-> Zero]
        ELSE IF Len(st) < 3
        THEN [err |-> "ValueError", value |-> Zero]
        ELSE IF IsZero(time)
        THEN [err |-> "ZeroDivisionError", value |-> Zero]
        ELSE [err |-> "none", value |-> Div(Sub(total_path, ramps), time)]

\* get_initial_speed: [err, value].  len() of an argument that is not a
\* list raises TypeError.
get_initial_speed(target_angle, spins_amount, stages_list, initial_angle) ==
    LET st == stages_list.items
        total_path == Sub(Add(target_angle, I(360 * spins_amount)), initial_angle)
        t1 == st[1].duration
        t2 == st[2].duration
        t3 == st[3].duration
        a1 == st[1].acceleration
        a2 == st[2].acceleration
        a3 == st[3].acceleration
        ramps == Add(Add(Add(Add(Add(Div(Mul(a1, Pow2(t1)), I(2)),
                                     Div(Mul(a2, Pow2(t2)), I(2))),
                                 Div(Mul(a3, Pow2(t3)), I(2))),
                             Mul(Mul(a1, t1), t2)),
                         Mul(Mul(a1, t1), t3)),
                     Mul(Mul(a2, t2), t3))
        time == Add(Add(t1, t2), t3)
    IN  IF stages_list.type # "list"
        THEN [err |-> "TypeError", value |-> Zero]
        ELSE IF Len(st) # 3
        THEN [err |-> "ValueError", value |-> Zero]
        ELSE IF IsZero(time)
        THEN [err |-> "ZeroDivisionError", value |-> Zero]
        ELSE [err |-> "none", value |-> Div(Sub(total_path, ramps), time)]

\* get_linear_stage_speed with the denominator (t1 + t2 - t3) / 2 + t3
get_linear_stage_speed_dropped_start(target_angle, spins_amount, target_time, linear_start_time, linear_end_time, initial_angle) ==
    LET total_path == Sub(Add(target_angle, I(360 * spins_amount)), initial_angle)
        t1 == linear_start_time
        t2 == linear_end_time
        t3 == target_time
        span == Add(Div(Sub(Add(t1, t2), t3), I(2)), t3)
    IN  IF IsZero(span)
        THEN [err |-> "ZeroDivisionError", value |-> Zero]
        ELSE [err |-> "none", value |-> Div(total_path, span)]

\* get_linear_stage_speed: [err, value]
get_linear_stage_speed(target_angle, spins_amount, target_time, linear_start_time, linear_end_time, initial_angle) ==
    LET total_path == Sub(Add(target_angle, I(360 * spins_amount)), initial_angle)
        t1 == linear_start_time
        t2 == linear_end_time
        t3 == target_time
        span == Add(Sub(Div(Sub(Add(t1, t2), t3), I(2)), t1), t3)
    IN  IF IsZero(span)
        THEN [err |-> "ZeroDivisionError", value |-> Zero]
        ELSE [err |-> "none", value |-> Div(total_path, span)]

----------------------------------------------------------------------------
(* Bounds and the values operations are called with *)

\* The longest stage list the operations build.
MaxStages == 3
\* The longest stage list whose member stages are edited in place.
MaxEdited == 2
\* The number of controllers created without a stage list of their own.
MaxControllers == 2
\* The longest stage list a spin is planned over: one more than the planner takes.
MaxPlanned == 4

Durations == {I(-1), I(0), I(1), I(2)}
\* Durations of the stages edited in place; -1 also is update_acceleration's
\* "leave the duration alone".
EditDurations == {I(-1), I(0), I(1)}
SeqKinds == {LINEAR_STAGE}
TotalTimes == {I(0), I(1), I(2)}
Speeds == {I(0), I(2)}
Coefficients == {Zero, Rat(1, 2), I(1)}
\* Poll times: before 0, every stage boundary, instants in between, past the end.
Times == {Rat(n, 2) : n \in -1..(4 * MaxStages + 1)}

\* Poll times of a spin that is rescaled or edited while it runs
RunTimes == {Zero, Rat(1, 2), I(1), I(2)}

\* Controllers that share a stage list
SharedTotalTimes == {I(1), I(2)}
SharedDurations == {I(-1), I(1)}

\* Spin times the number of spins is computed for
SpinTimes == 0..24

\* Arguments of get_angle: speeds 0, 0.3, 0.7 and -100.0, accelerations 0,
\* -0.1 and -20.0, times in whole seconds, and initial angles -4.9 to 350.0
AngleSpeeds == {FZero, Dec(3, 10), Dec(7, 10), FInt(-100)}
AngleAccelerations == {FZero, Dec(-1, 10), FInt(-20)}
AngleTimes == {0, 3, 7, 9}
AngleInitials == {Dec(-49, 10), Dec(-27, 10), Dec(-9, 10), FZero, Dec(1805, 10), FInt(350)}

\* The times the linear stage starts and ends at, and the spin ends at
LinearTimes == {Zero, Rat(1, 2), I(1), I(2), I(3)}

\* The speeds the planner hands to start, and the elapsed times of the
\* timer's polls (the plan of the constructed wheel has its stages on
\* [0, 3/2), [3/2, 3) and [3, 5))
PlannedSpeeds == {I(60), I(90), I(100), I(120), I(200), I(300)}
UpdateTimes == {Rat(1, 2), I(1), I(2), Rat(5, 2), Rat(7, 2), I(4), Rat(9, 2), I(6)}

\* What a spin is planned for
PlanDurations == {I(-1), I(0), I(1)}
TargetAngles == {I(90)}
SpinCounts == {0, 2}
InitialAngles == {I(0), I(-270)}

\* What the user types and drags in the visualizer
SpinTimeInputs == {0, 5}
TargetAngleInputs == {100, 270}
AngleInputs == {0, 180}

\* No visualizer has been created.
NoViz == [built |-> FALSE]
\* hist.valid: the polls since the cursor was last 0 form one run of
\* non-decreasing times t >= 0 with no mutation in between (the last poll's
\* time is op.x).  hist.prev: the cursor the last poll started from.
NoHist == [valid |-> FALSE, prev |-> 0]

----------------------------------------------------------------------------
(* State after construction *)

World == [heap |-> heap, lists |-> lists, ctl |-> ctl]

EmptyWorld ==
    [heap |-> (STOP_STAGE :> StopFields),
     lists |-> (DefaultList :> <<>>),
     ctl |-> <<>>]

\* controller = StagesController(total_spin_time), the stage list defaulted
NewController(w, total_spin_time) ==
    [w EXCEPT !.ctl = Append(@, StagesController(w, total_spin_time, DefaultList))]

InitWith(w) ==
    /\ heap = w.heap
    /\ lists = w.lists
    /\ ctl = w.ctl
    /\ err = "none"
    /\ ret = <<>>
    /\ op = [name |-> "__init__", c |-> 1, x |-> Zero]
    /\ hist = NoHist
    /\ viz = NoViz

Init == \E T \in TotalTimes : InitWith(NewController(EmptyWorld, T))

InitPoll == InitWith(NewController(EmptyWorld, I(2)))

\* The next state is the result r of an operation, the visualizer's fields v.
Commit(r, v) ==
    LET w == Collect(r.w, r.ret, v)
    IN  /\ heap' = w.heap
        /\ lists' = w.lists
        /\ ctl' = w.ctl
        /\ err' = r.err
        /\ ret' = r.ret
        /\ viz' = v

----------------------------------------------------------------------------
(* class WheelVisualizer.  Its stages_controller is controller 1.  Drawing,
   colours and the sector count are left out: they change nothing below. *)

\* seq[i] with Python's indexing (0-based, negative from the end)
InIndex(seq, i) == -Len(seq) <= i /\ i < Len(seq)
PyIndex(seq, i) == IF i >= 0 THEN seq[i + 1] ELSE seq[Len(seq) + i + 1]

\* StagesController.next_stage.  next_id is at most len(stage_order), so the
\* index is in range whenever it is used.
next_stage(w, c, cur_time) ==
    LET r == get_current_stage(w, c, cur_time)
        next_id == r.w.ctl[c].active_stage_id + 1
    IN  IF next_id # Len(Order(r.w, c))
        THEN Result(r.w, "none", <<PyIndex(Order(r.w, c), next_id)>>)
        ELSE Result(r.w, "none", <<STOP_STAGE>>)

\* StagesController.prev_stage
prev_stage(w, c, cur_time) ==
    LET r == get_current_stage(w, c, cur_time)
        id == r.w.ctl[c].active_stage_id
    IN  IF id = 0
        THEN Result(r.w, "none", <<STOP_STAGE>>)
        ELSE IF InIndex(Order(r.w, c), id - 1)
        THEN Result(r.w, "none", <<PyIndex(Order(r.w, c), id - 1)>>)
        ELSE Result(r.w, "IndexError", <<>>)

\* An outcome of a visualizer handler: object graph, visualizer fields, exception
VResult(w, v, e) == [w |-> w, v |-> v, err |-> e]

\* WheelVisualizer.stop
stop(w, v) ==
    VResult([w EXCEPT !.ctl[1].active_stage_id = 0], [v EXCEPT !.speed = Zero], "none")

\* The loop of apply_settings over stage_sliders
set_coefficients(w, v) ==
    [w EXCEPT !.heap =
        [x \in DOMAIN w.heap |->
            IF \E k \in DOMAIN v.sliders : w.ctl[1].stages_by_type[k] = x
            THEN LET k == CHOOSE k \in DOMAIN v.sliders : w.ctl[1].stages_by_type[k] = x
                 IN  [w.heap[x] EXCEPT !.time_coefficient = Div(v.sliders[k], I(100))]
            ELSE w.heap[x]]]

\* WheelVisualizer.apply_settings
apply_settings(w, v) ==
    LET spins == get_spins_amount(v.spin_coeff, FInt(v.spin_time_input))
        v1 == [v EXCEPT !.spin_time = v.spin_time_input,
                        !.target_angle = I(v.target_angle_input),
                        !.spins_amount = spins,
                        !.initial_angle =
                            IF Le(Zero, Sub(v.angle, I(v.target_angle_input)))
                            THEN Sub(v.angle, I(360))
                            ELSE v.angle]
        r == update_total_time(set_coefficients(w, v), 1, I(v.spin_time_input))
    IN  VResult(r.w, v1, r.err)

\* The end of update: speed and angle at the time into the current stage
update_tail(w, v, time) ==
    IF v.current_stage = STOP_STAGE
    THEN VResult(w, v, "AttributeError")
    ELSE LET cs == w.heap[v.current_stage]
             stage_time == IF Lt(Zero, cs.start_time)
                           THEN Sub(time, cs.start_time)
                           ELSE time
         IN  VResult(w,
                     [v EXCEPT !.speed = get_speed(v.initial_speed, v.acceleration,
                                                   stage_time),
                               !.angle = get_angle(v.initial_speed, v.acceleration,
                                                   stage_time, v.initial_angle),
                               !.timer = TRUE],
                     "none")

\* WheelVisualizer.update at `time` seconds after start_time
update(w, v, time) ==
    LET r1 == get_current_stage(w, 1, time)
    IN  IF v.current_stage # r1.ret[1]
        THEN LET r2 == get_current_stage(r1.w, 1, time)
                 cur == r2.ret[1]
                 v1 == [v EXCEPT !.current_stage = cur]
                 p == prev_stage(r2.w, 1, time)
             IN  IF cur = STOP_STAGE
                 THEN VResult(r2.w, [v1 EXCEPT !.timer = FALSE], "none")
                 ELSE IF p.err # "none"
                 THEN VResult(p.w, [v1 EXCEPT !.timer = FALSE], p.err)
                 ELSE IF p.ret[1] = STOP_STAGE
                 THEN VResult(p.w, [v1 EXCEPT !.timer = FALSE], "AttributeError")
                 ELSE update_tail(p.w,
                         [v1 EXCEPT
                             !.initial_angle =
                                 get_angle(v.initial_speed, v.acceleration,
                                           p.w.heap[p.ret[1]].duration,
                                           v.initial_angle),
                             !.acceleration = p.w.heap[cur].acceleration,
                             !.initial_speed = p.w.heap[cur].start_speed],
                         time)
        ELSE update_tail(r1.w, v, time)

\* The part of start after the planner has returned initial_speed
start_spin(w, v, initial_speed) ==
    LET order == Order(w, 1)
        acceleration_sign == StageValue(w.heap[order[1]].stage_type)
        is == IF acceleration_sign > 0 THEN Div(initial_speed, I(2)) ELSE initial_speed
        ls == IF acceleration_sign < 0 THEN Div(initial_speed, I(2)) ELSE initial_speed
        h == [w.heap EXCEPT
                 ![order[1]] = update_acceleration(@, is, @.duration, ls),
                 ![order[2]] = update_acceleration(@, ls, @.duration, ls),
                 ![order[3]] = update_acceleration(@, ls, @.duration, Zero)]
    IN  update([w EXCEPT !.heap = h],
               [v EXCEPT !.initial_speed = is,
                         !.linear_speed = ls,
                         !.current_stage = order[1],
                         !.acceleration = h[order[1]].acceleration,
                         !.speed = is],
               Zero)

\* The part of start after stop and apply_settings, whose outcome is a.  The
\* planner is called with self.spin_time, a number, where it takes the list
\* of stages.
start_applied(a) ==
    LET r == get_initial_speed(a.v.target_angle, a.v.spins_amount,
                               NumberArg(a.v.spin_time), a.v.initial_angle)
    IN  IF a.err # "none"
        THEN a
        ELSE IF ~Le(a.v.speed, Zero)
        THEN a
        ELSE IF r.err # "none"
        THEN VResult(a.w, a.v, r.err)
        ELSE start_spin(a.w, a.v, r.value)

\* WheelVisualizer.start
start(w, v) ==
    LET s == stop(w, v)
    IN  start_applied(apply_settings(s.w, s.v))

\* WheelVisualizer.__init__
WheelVisualizer ==
    LET spin_time == I(5)
        w0 == NewController(EmptyWorld, spin_time)
        w1 == emplace_stage(w0, 1, DECCELERATION_STAGE,
                            Mul(spin_time, Rat(3, 10)), Zero, Zero).w
        w2 == emplace_stage(w1, 1, LINEAR_STAGE,
                            Mul(spin_time, Rat(3, 10)), Zero, Zero).w
        w3 == emplace_stage(w2, 1, DECCELERATION_STAGE,
                            Sub(spin_time, w2.ctl[1].total_stages_duration),
                            Zero, Zero).w
        v == [built |-> TRUE,
              angle |-> Zero,
              initial_angle |-> Zero,
              speed |-> Zero,
              acceleration |-> Zero,
              initial_speed |-> Zero,
              linear_speed |-> Zero,
              spins_amount |-> 0,
              spin_time |-> 5,
              spin_time_input |-> 5,
              target_angle |-> Zero,
              target_angle_input |-> 100,
              spin_coeff |-> 1,
              current_stage |-> STOP_STAGE,
              timer |-> FALSE,
              sliders |->
                  [k \in {LINEAR_STAGE, DECCELERATION_STAGE} |->
                      Mul(w3.heap[w3.ctl[1].stages_by_type[k]].time_coefficient,
                          I(100))]]
    IN  apply_settings(w3, v)

----------------------------------------------------------------------------
(* Operations on controller c *)

\* The stage list of controller c is shorter than n.
Room(c, n) == Len(Order(World, c)) < n

AppendStage(c, k, d, ss, es) ==
    /\ Commit(append_new(World, c, Stage(k, d, Zero, ss, es, MinusOne)), viz)
    /\ op' = [name |-> "append_stage", c |-> c, x |-> Zero]
    /\ hist' = NoHist

EmplaceStage(c, k, d, ss, es) ==
    /\ Commit(emplace_stage(World, c, k, d, ss, es), viz)
    /\ op' = [name |-> "emplace_stage", c |-> c, x |-> Zero]
    /\ hist' = NoHist

ClearStages(c) ==
    /\ Commit(clear_stages(World, c), viz)
    /\ op' = [name |-> "clear_stages", c |-> c, x |-> Zero]
    /\ hist' = NoHist

UpdateTotalTime(c, T) ==
    /\ Commit(update_total_time(World, c, T), viz)
    /\ op' = [name |-> "update_total_time", c |-> c, x |-> T]
    /\ hist' = NoHist

\* Another controller is created: StagesController(T), the stage list defaulted
Construct(T) ==
    /\ Len(ctl) < MaxControllers
    /\ Commit(Result(NewController(World, T), "none", <<>>), viz)
    /\ op' = [name |-> "__init__", c |-> Len(ctl) + 1, x |-> Zero]
    /\ hist' = NoHist

\* stage_order[i].update_acceleration(ss, d, es) on a member stage (i is 1-based)
UpdateAcceleration(c, i, ss, d, es) ==
    /\ i \in 1..Len(Order(World, c))
    /\ Commit(Result([World EXCEPT !.heap[Order(World, c)[i]] =
                                       update_acceleration(@, ss, d, es)],
                     "none", <<>>), viz)
    /\ op' = [name |-> "update_acceleration", c |-> c, x |-> Zero]
    /\ hist' = NoHist

\* stages_by_type[k].time_coefficient = coef, as apply_settings does
SetTimeCoefficient(c, k, coef) ==
    /\ k \in DOMAIN ctl[c].stages_by_type
    /\ Commit(Result([World EXCEPT !.heap[ctl[c].stages_by_type[k]].time_coefficient = coef],
                     "none", <<>>), viz)
    /\ op' = [name |-> "set_time_coefficient", c |-> c, x |-> coef]
    /\ hist' = NoHist

\* A poll: get_current_stage(t).  The run stays a run of non-decreasing
\* times t >= 0 that started with the cursor at 0.
GetCurrentStage(c, t) ==
    /\ Commit(get_current_stage(World, c, t), viz)
    /\ op' = [name |-> "get_current_stage", c |-> c, x |-> t]
    /\ hist' = [valid |-> \/ ctl[c].active_stage_id = 0 /\ Le(Zero, t)
                          \/ hist.valid /\ Le(op.x, t),
                prev |-> ctl[c].active_stage_id]

\* next_stage(t) and prev_stage(t) poll, and are part of the run of polls.
NextStage(c, t) ==
    /\ Commit(next_stage(World, c, t), viz)
    /\ op' = [name |-> "next_stage", c |-> c, x |-> t]
    /\ hist' = [valid |-> \/ ctl[c].active_stage_id = 0 /\ Le(Zero, t)
                          \/ hist.valid /\ Le(op.x, t),
                prev |-> ctl[c].active_stage_id]

PrevStage(c, t) ==
    /\ Commit(prev_stage(World, c, t), viz)
    /\ op' = [name |-> "prev_stage", c |-> c, x |-> t]
    /\ hist' = [valid |-> \/ ctl[c].active_stage_id = 0 /\ Le(Zero, t)
                          \/ hist.valid /\ Le(op.x, t),
                prev |-> ctl[c].active_stage_id]

\* n = get_spins_amount(coeff, T) with an int coefficient and an int spin
\* time, as apply_settings calls it; ret is <<n>> and op.x the arguments.
GetSpinsAmount(coeff, T) ==
    /\ ret' = <<get_spins_amount(coeff, FInt(T))>>
    /\ err' = "none"
    /\ op' = [name |-> "get_spins_amount", c |-> 1, x |-> <<coeff, T>>]
    /\ hist' = NoHist
    /\ UNCHANGED <<heap, lists, ctl, viz>>

\* r = get_angle(initial_speed, acceleration, cur_time, initial_angle) on
\* floats; ret is <<r>> and op.x the arguments.
GetAngle(initial_speed, acceleration, cur_time, initial_angle) ==
    /\ ret' = <<get_angle_binary64(initial_speed, acceleration, cur_time, initial_angle)>>
    /\ err' = "none"
    /\ op' = [name |-> "get_angle", c |-> 1,
              x |-> <<initial_speed, acceleration, cur_time, initial_angle>>]
    /\ hist' = NoHist
    /\ UNCHANGED <<heap, lists, ctl, viz>>

\* WheelVisualizer.stop resets the cursor: stages_controller.active_stage_id = 0
ResetCursor(c) ==
    /\ Commit(Result([World EXCEPT !.ctl[c].active_stage_id = 0], "none", <<>>), viz)
    /\ op' = [name |-> "reset_cursor", c |-> c, x |-> Zero]
    /\ hist' = NoHist

\* v0 = get_initial_speed(target_angle, spins_amount, stage_order,
\* initial_angle); the three stages then start at v0, v0 + a1*t1 and
\* v0 + a1*t1 + a2*t2 (v2 and v3 of get_initial_speed).  op.x is the path
\* asked for.
PlanSpin(c, target_angle, spins_amount, initial_angle) ==
    LET order == Order(World, c)
        st == [i \in 1..Len(order) |-> heap[order[i]]]
        r == get_initial_speed(target_angle, spins_amount, ListArg(st), initial_angle)
        v2 == Add(r.value, Mul(st[1].acceleration, st[1].duration))
        v3 == Add(v2, Mul(st[2].acceleration, st[2].duration))
        w1 == IF r.err = "none"
              THEN [World EXCEPT !.heap[order[1]].start_speed = r.value,
                                 !.heap[order[2]].start_speed = v2,
                                 !.heap[order[3]].start_speed = v3]
              ELSE World
    IN  /\ Commit(Result(w1, r.err, <<>>), viz)
        /\ op' = [name |-> "get_initial_speed", c |-> c,
                  x |-> Sub(Add(target_angle, I(360 * spins_amount)), initial_angle)]
        /\ hist' = NoHist

\* v = get_linear_stage_speed(target_angle, spins_amount, target_time,
\* linear_start_time, linear_end_time, initial_angle), and the plan it is
\* for is built on controller c: a stage from 0 to v over
\* [0, linear_start_time], a stage at v up to linear_end_time and a stage
\* from v to 0 up to target_time.  op.x is the path asked for.
PlanLinear(c, target_angle, spins_amount, target_time, linear_start_time, linear_end_time, initial_angle) ==
    LET r == get_linear_stage_speed(target_angle, spins_amount, target_time,
                                    linear_start_time, linear_end_time, initial_angle)
        e1 == emplace_stage(clear_stages(World, c).w, c, ACCELERATION_STAGE,
                            linear_start_time, Zero, r.value)
        e2 == emplace_stage(e1.w, c, LINEAR_STAGE,
                            Sub(linear_end_time, linear_start_time), r.value, r.value)
        e3 == emplace_stage(e2.w, c, DECCELERATION_STAGE,
                            Sub(target_time, linear_end_time), r.value, Zero)
        e == IF r.err # "none" THEN r.err
             ELSE IF e1.err # "none" THEN e1.err
             ELSE IF e2.err # "none" THEN e2.err
             ELSE e3.err
    IN  /\ Commit(Result(IF e = "none" THEN e3.w ELSE World, e, <<>>), viz)
        /\ op' = [name |-> "get_linear_stage_speed", c |-> c,
                  x |-> Sub(Add(target_angle, I(360 * spins_amount)), initial_angle)]
        /\ hist' = NoHist

----------------------------------------------------------------------------
(* The visualizer's handlers *)

\* The next state is the outcome r of a handler.
CommitViz(r, name) ==
    /\ Commit(Result(r.w, r.err, <<>>), r.v)
    /\ op' = [name |-> name, c |-> 1, x |-> Zero]
    /\ hist' = NoHist

\* The next state is the outcome r of a handler; op and hist are the caller's.
CommitWith(r) == Commit(Result(r.w, r.err, <<>>), r.v)

\* The Start button
Start ==
    /\ viz.built
    /\ CommitViz(start(World, viz), "start")

\* The Stop button
Stop ==
    /\ viz.built
    /\ CommitViz(stop(World, viz), "stop")

\* The Apply button
ApplySettings ==
    /\ viz.built
    /\ CommitViz(apply_settings(World, viz), "apply_settings")

\* start from the point where the planner has returned: stop and
\* apply_settings, then the statements that follow the call of
\* get_initial_speed, for a returned speed v0.  hist.start keeps the spin as
\* it is when start returns.
StartWith(v0) ==
    LET s == stop(World, viz)
        a == apply_settings(s.w, s.v)
    IN  /\ viz.built
        /\ a.err = "none"
        /\ CommitWith(start_spin(a.w, a.v, v0))
        /\ op' = [name |-> "start", c |-> 1, x |-> v0]
        /\ hist' = [valid |-> FALSE, prev |-> 0,
                    start |-> [w |-> [heap |-> heap', lists |-> lists', ctl |-> ctl'],
                               v |-> viz']]

\* The timer fires: update, `time` seconds after start_time.  The clock does
\* not run backwards, and update is scheduled only while a spin is shown.
Update(time) ==
    /\ viz.built
    /\ viz.timer
    /\ op.name = "update" => Le(op.x, time)
    /\ CommitWith(update(World, viz, time))
    /\ op' = [name |-> "update", c |-> 1, x |-> time]
    /\ UNCHANGED hist

\* The "Spin time" entry is edited.
EditSpinTime(n) ==
    /\ n # viz.spin_time_input
    /\ CommitViz(VResult(World, [viz EXCEPT !.spin_time_input = n], "none"), "edit")

\* The "Target angle" entry is edited.
EditTargetAngle(n) ==
    /\ n # viz.target_angle_input
    /\ CommitViz(VResult(World, [viz EXCEPT !.target_angle_input = n], "none"), "edit")

\* The angle slider is dragged: update_angle
UpdateAngle(n) ==
    /\ I(n) # viz.angle
    /\ CommitViz(VResult(World, [viz EXCEPT !.angle = I(n)], "none"), "update_angle")

\* The spin coefficient slider is dragged: update_spin_coeff
UpdateSpinCoeff(n) ==
    /\ n # viz.spin_coeff
    /\ CommitViz(VResult(World, [viz EXCEPT !.spin_coeff = n], "none"),
                 "update_spin_coeff")

----------------------------------------------------------------------------
(* Specifications *)

\* A sequence under append_stage, emplace_stage, clear_stages and
\* update_total_time, the stages built with the default speeds.
NextSeq ==
    \/ /\ Room(1, MaxStages)
       /\ \E k \in SeqKinds, d \in Durations : AppendStage(1, k, d, Zero, Zero)
    \/ /\ Room(1, MaxStages)
       /\ \E k \in SeqKinds, d \in Durations : EmplaceStage(1, k, d, Zero, Zero)
    \/ ClearStages(1)
    \/ \E T \in TotalTimes : UpdateTotalTime(1, T)

SpecSeq == Init /\ [][NextSeq]_vars

\* Stages of any boundary speeds, rescaled and edited in place:
\* update_acceleration on a member stage, and a time_coefficient set directly.
Next ==
    \/ /\ Room(1, MaxEdited)
       /\ \E k \in SeqKinds, d \in EditDurations, ss \in Speeds, es \in Speeds :
            EmplaceStage(1, k, d, ss, es)
    \/ \E T \in TotalTimes : UpdateTotalTime(1, T)
    \/ \E i \in 1..MaxEdited, ss \in Speeds \cup {MinusOne},
           d \in EditDurations, es \in Speeds \cup {MinusOne} :
          UpdateAcceleration(1, i, ss, d, es)
    \/ \E k \in SeqKinds, coef \in Coefficients : SetTimeCoefficient(1, k, coef)

Spec == Init /\ [][Next]_vars

\* A sequence is built, then polled; stop() may reset the cursor.
NextPoll ==
    \/ /\ Room(1, MaxStages)
       /\ \E k \in SeqKinds, d \in Durations : AppendStage(1, k, d, Zero, Zero)
    \/ /\ Room(1, MaxStages)
       /\ \E k \in SeqKinds, d \in Durations : EmplaceStage(1, k, d, Zero, Zero)
    \/ \E t \in Times : GetCurrentStage(1, t)
    \/ ResetCursor(1)

\* Stages are built, and a spin is planned over the stage list.
NextPlan ==
    \/ /\ Room(1, MaxPlanned)
       /\ \E k \in SeqKinds, d \in PlanDurations, ss \in Speeds, es \in Speeds :
            EmplaceStage(1, k, d, ss, es)
    \/ \E ta \in TargetAngles, n \in SpinCounts, ia \in InitialAngles :
          PlanSpin(1, ta, n, ia)

SpecPlan == InitPoll /\ [][NextPlan]_vars

SpecPoll == InitPoll /\ [][NextPoll]_vars

\* A sequence is built and polled, and is rescaled and edited between polls.
NextRun ==
    \/ /\ Room(1, MaxEdited)
       /\ \E k \in SeqKinds, d \in EditDurations, ss \in Speeds, es \in Speeds :
            EmplaceStage(1, k, d, ss, es)
    \/ \E t \in RunTimes : GetCurrentStage(1, t)
    \/ \E T \in TotalTimes : UpdateTotalTime(1, T)
    \/ \E i \in 1..MaxEdited, ss \in Speeds, es \in Speeds :
          UpdateAcceleration(1, i, ss, MinusOne, es)

SpecRun == InitPoll /\ [][NextRun]_vars

\* The number of spins is computed for the coefficients of the slider and
\* whole spin times.
NextSpins ==
    \E coeff \in SPIN_COEF_MIN..SPIN_COEF_MAX, T \in SpinTimes : GetSpinsAmount(coeff, T)

SpecSpins == InitPoll /\ [][NextSpins]_vars

\* The wheel position is computed for speeds in tenths of a degree per
\* second, whole times, and initial angles in tenths of a degree on both
\* sides of 0.
NextAngle ==
    \E v0 \in AngleSpeeds, a \in AngleAccelerations, t \in AngleTimes,
       a0 \in AngleInitials : GetAngle(v0, a, t, a0)

SpecAngle == InitPoll /\ [][NextAngle]_vars

\* The speed of the linear stage is planned for times with
\* 0 <= linear_start_time <= linear_end_time <= target_time, target_time > 0.
NextLinear ==
    \E ta \in TargetAngles, n \in SpinCounts, ia \in InitialAngles,
       t1 \in LinearTimes, t2 \in LinearTimes, t3 \in LinearTimes :
        /\ Le(Zero, t1) /\ Le(t1, t2) /\ Le(t2, t3) /\ Lt(Zero, t3)
        /\ PlanLinear(1, ta, n, t3, t1, t2, ia)

SpecLinear == InitPoll /\ [][NextLinear]_vars

\* A sequence is built, then polled for the current stage and its neighbours.
NextNeighbour ==
    \/ /\ Room(1, MaxStages)
       /\ \E k \in SeqKinds, d \in Durations : AppendStage(1, k, d, Zero, Zero)
    \/ /\ Room(1, MaxStages)
       /\ \E k \in SeqKinds, d \in Durations : EmplaceStage(1, k, d, Zero, Zero)
    \/ \E t \in Times : GetCurrentStage(1, t)
    \/ \E t \in Times : NextStage(1, t)
    \/ \E t \in Times : PrevStage(1, t)
    \/ ResetCursor(1)

SpecNeighbour == InitPoll /\ [][NextNeighbour]_vars

\* Several controllers, each created as StagesController(T), are built up
\* and cleared.  A controller appends while its total_stages_duration, which
\* only its own clear_stages resets, is below MaxStages.
CanAppend(c) ==
    Room(c, MaxEdited) /\ Lt(ctl[c].total_stages_duration, I(MaxStages))

NextShared ==
    \/ \E T \in SharedTotalTimes : Construct(T)
    \/ \E c \in DOMAIN ctl :
          /\ CanAppend(c)
          /\ \E k \in SeqKinds, d \in SharedDurations : AppendStage(c, k, d, Zero, Zero)
    \/ \E c \in DOMAIN ctl :
          /\ CanAppend(c)
          /\ \E k \in SeqKinds, d \in SharedDurations : EmplaceStage(c, k, d, Zero, Zero)
    \/ \E c \in DOMAIN ctl : ClearStages(c)

SpecShared == InitPoll /\ [][NextShared]_vars

\* A sequence built by emplace_stage alone, and rescaled.
NextRescale ==
    \/ /\ Room(1, MaxStages)
       /\ \E k \in SeqKinds, d \in Durations : EmplaceStage(1, k, d, Zero, Zero)
    \/ \E T \in TotalTimes : UpdateTotalTime(1, T)

SpecRescale == Init /\ [][NextRescale]_vars

----------------------------------------------------------------------------
(* What the claims speak of *)

\* The stages of controller c, in order, as field records
StageSeq(c) == [i \in 1..Len(lists[ctl[c].stage_order]) |-> heap[lists[ctl[c].stage_order][i]]]

RECURSIVE SumDur(_, _)
SumDur(ss, n) == IF n = 0 THEN Zero ELSE Add(SumDur(ss, n - 1), ss[n].duration)

\* The sum of the durations of the stages in stage_order
SumDurations(c) == SumDur(StageSeq(c), Len(StageSeq(c)))

GapFree(ss) ==
    /\ Len(ss) > 0 => ss[1].start_time = Zero
    /\ \A i \in 1..(Len(ss) - 1) : ss[i + 1].start_time = get_end_time(ss[i])

Returned(name) == op.name = name /\ err = "none"

----------------------------------------------------------------------------
(* C1 *)

\* C1: in every state reachable by append_stage, emplace_stage, clear_stages
\* and update_total_time the stage list is gap-free and overlap-free: the
\* first stage starts at 0 and every later stage starts where the previous
\* one ends.
C1_GapFree == GapFree(StageSeq(1))

----------------------------------------------------------------------------
(* C6 *)

\* C6: after update_total_time(T) returns on a sequence with at least one
\* stage, the durations of the stages in stage_order sum to T, and
\* total_stages_duration and total_spin_time both equal T.
C6_RescaleSum ==
    (Returned("update_total_time") /\ Len(StageSeq(1)) >= 1) =>
        /\ SumDurations(1) = op.x
        /\ ctl[1].total_stages_duration = op.x
        /\ ctl[1].total_spin_time = op.x

\* update_total_time has returned on a full list whose last stage was
\* stretched or shrunk to make up the mismatch.
C6_Witness ==
    /\ Returned("update_total_time")
    /\ Len(StageSeq(1)) = MaxStages
    /\ LET last == StageSeq(1)[MaxStages]
       IN  last.duration # Mul(op.x, last.time_coefficient)

----------------------------------------------------------------------------
(* C7 *)

CoefficientsInRange(ss) ==
    \A i \in 1..Len(ss) :
        \/ ss[i].time_coefficient = MinusOne
        \/ Le(Zero, ss[i].time_coefficient) /\ Le(ss[i].time_coefficient, I(1))

\* C7: no stage in the controller's stage list ever has a negative duration
\* (the stages' time coefficients being unset or in [0,1], the total times
\* >= 0): an operation that would produce one fails instead.
C7_NoNegativeDuration ==
    CoefficientsInRange(StageSeq(1)) =>
        \A i \in 1..Len(StageSeq(1)) : Le(Zero, StageSeq(1)[i].duration)

----------------------------------------------------------------------------
(* C8 *)

\* C8: every stage's acceleration is (end_speed - start_speed) / duration
\* when duration > 0 and 0 when duration = 0, also for the last stage after
\* update_total_time has adjusted its duration.
C8_AccelerationDerived ==
    \A i \in 1..Len(StageSeq(1)) :
        LET s == StageSeq(1)[i]
        IN  /\ Lt(Zero, s.duration) =>
                 s.acceleration = Div(Sub(s.end_speed, s.start_speed), s.duration)
            /\ s.duration = Zero => s.acceleration = Zero

----------------------------------------------------------------------------
(* C2 - C5: polling *)

Polled == op.name = "get_current_stage"

\* The indexes (1-based) of the stages of ss that are active at t
ActiveAt(ss, t) == {i \in 1..Len(ss) : is_active(ss[i], t)}

\* What a scan of the whole list from its first stage returns at t: the
\* reference of the first stage with start_time <= t < end_time, or the
\* STOP sentinel.
FirstActive(c, t) ==
    LET A == ActiveAt(StageSeq(c), t)
    IN  IF A = {}
        THEN STOP_STAGE
        ELSE lists[ctl[c].stage_order][CHOOSE i \in A : \A j \in A : i <= j]

\* C2: on a non-empty sequence, get_current_stage(t) with
\* t >= total_stages_duration returns the STOP sentinel and sets the cursor
\* to the STOP id, whatever cursor earlier queries left behind.
C2_StopAtEnd ==
    (Polled /\ Len(StageSeq(1)) > 0 /\ Le(ctl[1].total_stages_duration, op.x)) =>
        /\ ret = <<STOP_STAGE>>
        /\ ctl[1].active_stage_id = STOP_ID

\* A poll at or past the end of a full sequence of positive length, made
\* with the cursor on a later stage.
C2_Witness ==
    /\ Polled
    /\ Len(StageSeq(1)) = MaxStages
    /\ Lt(Zero, ctl[1].total_stages_duration)
    /\ Le(ctl[1].total_stages_duration, op.x)
    /\ hist.prev >= 1

\* C3: on a non-empty sequence with the cursor at 0, get_current_stage(t)
\* with t < 0 returns the first stage of the sequence and leaves the cursor
\* at 0.
C3_NegativeTimeFirstStage ==
    (Polled /\ Len(StageSeq(1)) > 0 /\ hist.prev = 0 /\ Lt(op.x, Zero)) =>
        /\ ret = <<lists[ctl[1].stage_order][1]>>
        /\ ctl[1].active_stage_id = 0

\* C4: at every instant t with 0 <= t < total_stages_duration exactly one
\* stage is active, and at no instant are two stages active at once.
C4_OneActive ==
    \A t \in Times :
        /\ Cardinality(ActiveAt(StageSeq(1), t)) <= 1
        /\ (Le(Zero, t) /\ Lt(t, ctl[1].total_stages_duration)) =>
               Cardinality(ActiveAt(StageSeq(1), t)) = 1

\* A full sequence with a stage of positive duration on each side of a
\* boundary, and one with a stage of duration 0 in it.
C4_Witness ==
    /\ Len(StageSeq(1)) = MaxStages
    /\ Lt(Zero, StageSeq(1)[1].duration)
    /\ StageSeq(1)[2].duration = Zero
    /\ Lt(Zero, StageSeq(1)[MaxStages].duration)

\* C5: in a run of polls with non-decreasing t >= 0 that starts with the
\* cursor at 0, every poll returns what a scan of the whole list returns.
C5_CursorScanIsFullScan ==
    (Polled /\ hist.valid) => ret = <<FirstActive(1, op.x)>>

\* A poll of such a run that started from a cursor past the first stage and
\* moved the cursor on to a later stage.
C5_Witness ==
    /\ Polled
    /\ hist.valid
    /\ hist.prev >= 1
    /\ ctl[1].active_stage_id > hist.prev

----------------------------------------------------------------------------
(* C9 *)

\* C9: with v0 = get_initial_speed(target_angle, spins_amount, stages,
\* initial_angle) and the three stages starting at v0, v0 + a1*t1 and
\* v0 + a1*t1 + a2*t2, the stages' get_total_path() sum to
\* target_angle + 360*spins_amount - initial_angle.
C9_TotalPath ==
    Returned("get_initial_speed") =>
        Add(Add(get_total_path(StageSeq(1)[1]), get_total_path(StageSeq(1)[2])),
            get_total_path(StageSeq(1)[3])) = op.x

\* A spin planned over three stages that all last and all accelerate.
C9_Witness ==
    /\ Returned("get_initial_speed")
    /\ \A i \in 1..3 :
          /\ Lt(Zero, StageSeq(1)[i].duration)
          /\ StageSeq(1)[i].acceleration # Zero
    /\ op.x # Zero

----------------------------------------------------------------------------
(* C11 *)

\* C11: get_initial_speed fails with the error for a wrong number of stages
\* (ValueError) on every stage list whose length is not 3, and does not fail
\* with that error on a list of exactly 3 stages.
C11_ThreeStagesOrError ==
    op.name = "get_initial_speed" =>
        ((err = "ValueError") <=> (Len(StageSeq(1)) # 3))

\* A spin planned over four stages was refused.
C11_Witness ==
    /\ op.name = "get_initial_speed"
    /\ Len(StageSeq(1)) = MaxPlanned
    /\ MaxPlanned > 3
    /\ err = "ValueError"

----------------------------------------------------------------------------
(* C12 *)

\* C12: emplace_stage with a real stage kind and a duration < 0 ends in an
\* error and leaves the controller as it was: stage_order,
\* total_stages_duration, stages_by_type, the cursor and every stage are
\* unchanged.
C12_FailedEmplaceLeavesController ==
    [][\A k \in SeqKinds, d \in Durations :
          (Lt(d, Zero) /\ EmplaceStage(1, k, d, Zero, Zero)) =>
              (err' = "ValueError" /\ UNCHANGED <<heap, lists, ctl>>)]_vars

\* A negative duration was refused by a controller that holds stages.
C12_Witness ==
    /\ op.name = "emplace_stage"
    /\ err = "ValueError"
    /\ Len(StageSeq(1)) > 0

----------------------------------------------------------------------------
(* C13 *)

\* The spin is running: the last call was a poll, and it returned a stage,
\* not the STOP sentinel.
Running == op.name = "get_current_stage" /\ ret # <<STOP_STAGE>>

\* C13: while a spin is running, update_total_time and update_acceleration
\* are rejected with an error and leave every stage's start_time, duration,
\* speeds and acceleration unchanged.
C13_NoMutationWhileRunning ==
    [][(Running /\ op'.name \in {"update_total_time", "update_acceleration"}) =>
          (err' # "none" /\ StageSeq(1)' = StageSeq(1))]_vars

----------------------------------------------------------------------------
(* C14 *)

\* C14: no operation on a sequence ends in a division by zero:
\* emplace_stage on a controller whose total_spin_time is 0 and
\* update_total_time on such a controller with stages that have no recorded
\* time coefficient return normally.
C14_NoZeroDivision ==
    op.name \in {"emplace_stage", "append_stage", "clear_stages", "update_total_time"} =>
        err # "ZeroDivisionError"

----------------------------------------------------------------------------
(* C15 *)

\* C15: on a controller with total_spin_time T > 0 whose stages were built by
\* emplace_stage, update_total_time(T) is an identity: every stage's duration
\* and start_time, total_stages_duration and total_spin_time are after the
\* call what they were before it.
C15_RescaleToSameTotalIsIdentity ==
    [][(/\ Len(StageSeq(1)) > 0
        /\ Lt(Zero, ctl[1].total_spin_time)
        /\ op'.name = "update_total_time"
        /\ op'.x = ctl[1].total_spin_time) =>
          (/\ err' = "none"
           /\ Len(StageSeq(1)') = Len(StageSeq(1))
           /\ \A i \in 1..Len(StageSeq(1)) :
                  /\ StageSeq(1)'[i].duration = StageSeq(1)[i].duration
                  /\ StageSeq(1)'[i].start_time = StageSeq(1)[i].start_time
           /\ ctl'[1].total_stages_duration = ctl[1].total_stages_duration
           /\ ctl'[1].total_spin_time = ctl[1].total_spin_time)]_vars

----------------------------------------------------------------------------
(* C16 *)

\* C16: stages_by_type maps each kind it contains to a stage that is in
\* stage_order, namely the last stage of that kind in it; it never refers to
\* a stage that has been removed from the sequence.
C16_ByTypeInOrder ==
    \A k \in DOMAIN ctl[1].stages_by_type :
        LET order == lists[ctl[1].stage_order]
        IN  \E i \in 1..Len(order) :
                /\ order[i] = ctl[1].stages_by_type[k]
                /\ heap[order[i]].stage_type = k
                /\ \A j \in (i + 1)..Len(order) : heap[order[j]].stage_type # k

----------------------------------------------------------------------------
(* C17 *)

\* C17: a controller created without an explicit stage list owns its stage
\* list: append_stage, emplace_stage and clear_stages on one controller never
\* change the stage_order of another controller.
C17_OwnStageList ==
    [][\A c, d \in DOMAIN ctl :
          (/\ c # d
           /\ op'.c = c
           /\ op'.name \in {"append_stage", "emplace_stage", "clear_stages"}) =>
              lists'[ctl'[d].stage_order] = lists[ctl[d].stage_order]]_vars

----------------------------------------------------------------------------
(* C18 *)

\* The index (1-based) of the stage of controller c active at t, 0 if none
ActiveIndex(c, t) ==
    LET A == ActiveAt(StageSeq(c), t)
    IN  IF A = {} THEN 0 ELSE CHOOSE i \in A : \A j \in A : i <= j

\* C18: on a non-empty sequence and for t >= 0, next_stage(t) returns the
\* stage after the active one, and the STOP sentinel when the active stage is
\* the last one or no stage is active at t; prev_stage(t) returns the stage
\* before the active one, and the STOP sentinel when the active stage is the
\* first one.  (The polls are a run of non-decreasing times, so that the
\* cursor is not past the active stage.)
C18_Neighbours ==
    LET order == lists[ctl[1].stage_order]
        act == ActiveIndex(1, op.x)
    IN  /\ (op.name = "next_stage" /\ hist.valid /\ Len(order) > 0) =>
              /\ err = "none"
              /\ ret = <<IF act = 0 \/ act = Len(order)
                         THEN STOP_STAGE
                         ELSE order[act + 1]>>
        /\ (op.name = "prev_stage" /\ hist.valid /\ act > 0) =>
              /\ err = "none"
              /\ ret = <<IF act = 1 THEN STOP_STAGE ELSE order[act - 1]>>

----------------------------------------------------------------------------
(* C19 *)

\* C19: for every integer coefficient c in [1, 10] and every spin time
\* T >= 0, get_spins_amount(c, T) is (0.5 + (c - 1) / 9) * T truncated toward
\* zero, that is floor((2c + 7) * T / 18).
C19_SpinsAmount ==
    op.name = "get_spins_amount" =>
        ret = <<((2 * op.x[1] + 7) * op.x[2]) \div 18>>

----------------------------------------------------------------------------
(* C20 *)

\* C20: for all initial speeds, accelerations, times and initial angles,
\* also those whose raw value initial_angle + v0*t + a*t^2/2 is negative,
\* get_angle returns a value r with 0 <= r < 360.
C20_AngleInRange ==
    op.name = "get_angle" =>
        /\ ~FLess(ret[1], FZero)
        /\ FLess(ret[1], FInt(360))

----------------------------------------------------------------------------
(* C21 *)

\* C21: in every reachable state of a controller (after construction,
\* emplace_stage, update_total_time, and Stage.update_acceleration with a new
\* duration on a member stage), total_stages_duration equals the sum of the
\* durations of the stages in stage_order.
C21_TotalIsSum == ctl[1].total_stages_duration = SumDurations(1)

----------------------------------------------------------------------------
(* C22 *)

\* C22: once get_current_stage(t) with t >= 0 has returned the STOP sentinel,
\* the next get_current_stage(t') with t' >= t, no other operation in
\* between, returns the STOP sentinel again and leaves the cursor at the STOP
\* id (and so does every later one, poll after poll).
C22_StopIsAbsorbing ==
    [][(/\ Polled
        /\ ret = <<STOP_STAGE>>
        /\ Le(Zero, op.x)
        /\ op'.name = "get_current_stage"
        /\ Le(op.x, op'.x)) =>
          (/\ ret' = <<STOP_STAGE>>
           /\ ctl'[1].active_stage_id = STOP_ID)]_vars

----------------------------------------------------------------------------
(* C23 *)

\* What the run of one poll at `time` reports, from the spin as start left it
OnePoll(time) == update(hist.start.w, hist.start.v, time).v

----------------------------------------------------------------------------
(* C24 *)

\* C24: with v = get_linear_stage_speed(target_angle, spins_amount,
\* target_time, linear_start_time, linear_end_time, initial_angle) and
\* 0 <= linear_start_time <= linear_end_time <= target_time, target_time > 0,
\* the plan that accelerates from 0 to v, holds v and decelerates from v to 0
\* over these times travels target_angle + 360*spins_amount - initial_angle:
\* the stages' get_total_path() sum to it.
C24_LinearPlanPath ==
    Returned("get_linear_stage_speed") =>
        Add(Add(get_total_path(StageSeq(1)[1]), get_total_path(StageSeq(1)[2])),
            get_total_path(StageSeq(1)[3])) = op.x

\* A plan whose three stages all last, for a path that is not 0.
C24_Witness ==
    /\ Returned("get_linear_stage_speed")
    /\ \A i \in 1..3 : Lt(Zero, StageSeq(1)[i].duration)
    /\ StageSeq(1)[1].acceleration # Zero
    /\ StageSeq(1)[3].acceleration # Zero
    /\ op.x # Zero

----------------------------------------------------------------------------
(* The visualizer *)

InitViz ==
    /\ heap = WheelVisualizer.w.heap
    /\ lists = WheelVisualizer.w.lists
    /\ ctl = WheelVisualizer.w.ctl
    /\ err = WheelVisualizer.err
    /\ ret = <<>>
    /\ op = [name |-> "__init__", c |-> 1, x |-> Zero]
    /\ hist = NoHist
    /\ viz = WheelVisualizer.v

NextViz ==
    \/ Start
    \/ Stop
    \/ ApplySettings
    \/ \E n \in SpinTimeInputs : EditSpinTime(n)
    \/ \E n \in TargetAngleInputs : EditTargetAngle(n)
    \/ \E n \in AngleInputs : UpdateAngle(n)
    \/ \E n \in SPIN_COEF_MIN..SPIN_COEF_MAX : UpdateSpinCoeff(n)

SpecViz == InitViz /\ [][NextViz]_vars

\* The constructed wheel is started once, with a planned speed, and the spin
\* is shown by the timer's polls.
NextUpdate ==
    \/ /\ op.name = "__init__"
       /\ \E v0 \in PlannedSpeeds : StartWith(v0)
    \/ \E time \in UpdateTimes : Update(time)

SpecUpdate == InitViz /\ [][NextUpdate]_vars

\* C10: every start request issued while the wheel is at rest runs the
\* planner and leaves the three stages with stage 0's end_speed = stage 1's
\* start_speed = stage 1's end_speed = stage 2's start_speed and stage 2's
\* end_speed 0; the request does not end in an error.
C10_StartPlansSpin ==
    op.name = "start" =>
        /\ err = "none"
        /\ StageSeq(1)[1].end_speed = StageSeq(1)[2].start_speed
        /\ StageSeq(1)[2].start_speed = StageSeq(1)[2].end_speed
        /\ StageSeq(1)[2].end_speed = StageSeq(1)[3].start_speed
        /\ StageSeq(1)[3].end_speed = Zero

====
